---- MODULE Spec2Model ----
(***************************************************************************)
(* A model of parse_des.py: the extraction of monster specifications from  *)
(* the MONS: / KMONS: directives of a tree of .des files.                  *)
(*                                                                         *)
(* Text (file contents, directive lines, candidates, file names) is a      *)
(* sequence of one-character strings, so that strip, split, replace and    *)
(* the regular expressions are computed character by character.  A path    *)
(* is the sequence of its components (the path split on DIR_DELIM).        *)
(***************************************************************************)
EXTENDS Integers, Sequences, FiniteSets, TLC

VARIABLES
    \* the environment: the directory tree and what the process was given
    dirname,        \* node -> base name of the directory (below the root)
    files,          \* set of [dir, name, data]: the files on disk
    isdir,          \* the paths for which os.path.isdir is true
    argv,           \* sys.argv as the process received it
    nprog,          \* how many leading elements of argv name the program
    \* main
    args, des_folder, output, verbose, outcome, written, emitted,
    \* generate_monster_lines
    cull, caller, todo, cur, listing, done, monster_lines, result,
    visited,        \* history: the directories os.walk yielded, in order
    opened,         \* history: the files open() was called on, in order
    passed,         \* history: every text handed to parse_mons_line
    \* direct calls of the string functions
    line, cleaned, recleaned, monsters, lines, culled,
    pc

envVars  == <<dirname, files, isdir, argv, nprog>>
mainVars == <<args, des_folder, output, verbose, outcome, written, emitted>>
walkVars == <<cull, caller, todo, cur, listing, done, monster_lines, result,
              visited, opened, passed>>
callVars == <<line, cleaned, recleaned, monsters, lines, culled>>
vars     == <<envVars, mainVars, walkVars, callVars, pc>>

----------------------------------------------------------------------------
(* Bounds of the model *)

\* number of tokens after the marker of a generated directive line
MaxBody == 3
\* number of tokens of a generated arbitrary string
MaxTokens == 3
\* number of candidates in a list given to cull_unnamed_monsters
MaxCands == 3
\* number of files in the scanned tree
MaxFiles == 2
\* number of command line words after the program name
MaxArgs == 3

----------------------------------------------------------------------------
(* Text primitives of Python, on sequences of characters *)

Last(s) == s[Len(s)]

Range(s) == {s[i] : i \in DOMAIN s}

\* the characters str.strip() removes and the regex class \s matches
IsSpace(c) == c \in {" ", "\t", "\n"}

RECURSIVE LStrip(_)
LStrip(s) == IF s # <<>> /\ IsSpace(Head(s)) THEN LStrip(Tail(s)) ELSE s

RECURSIVE RStrip(_)
RStrip(s) ==
    IF s # <<>> /\ IsSpace(Last(s)) THEN RStrip(SubSeq(s, 1, Len(s) - 1)) ELSE s

\* str.strip()
Strip(s) == RStrip(LStrip(s))

\* str.startswith(p)
StartsWith(s, p) == Len(s) >= Len(p) /\ SubSeq(s, 1, Len(p)) = p

\* str.endswith(p)
EndsWith(s, p) == Len(s) >= Len(p) /\ SubSeq(s, Len(s) - Len(p) + 1, Len(s)) = p

\* whether p occurs in s at position i
At(s, i, p) == i + Len(p) - 1 <= Len(s) /\ SubSeq(s, i, i + Len(p) - 1) = p

\* "sub in s", scanning from the left
RECURSIVE Contains(_, _)
Contains(s, sub) ==
    IF Len(s) < Len(sub) THEN FALSE
    ELSE IF StartsWith(s, sub) THEN TRUE
    ELSE Contains(Tail(s), sub)

\* str.split(c) for a one-character separator
RECURSIVE Split(_, _)
Split(s, c) ==
    IF \A i \in DOMAIN s : s[i] # c THEN <<s>>
    ELSE LET i == CHOOSE k \in DOMAIN s : s[k] = c /\ \A j \in 1..(k - 1) : s[j] # c
         IN  <<SubSeq(s, 1, i - 1)>> \o Split(SubSeq(s, i + 1, Len(s)), c)

\* str.replace(old, new): leftmost, non-overlapping occurrences
RECURSIVE Replace(_, _, _)
Replace(s, old, new) ==
    IF Len(s) < Len(old) THEN s
    ELSE IF StartsWith(s, old)
         THEN new \o Replace(SubSeq(s, Len(old) + 1, Len(s)), old, new)
         ELSE <<Head(s)>> \o Replace(Tail(s), old, new)

\* sep.join(parts)
RECURSIVE Join(_, _)
Join(parts, sep) ==
    IF parts = <<>> THEN <<>>
    ELSE IF Len(parts) = 1 THEN parts[1]
    ELSE parts[1] \o sep \o Join(Tail(parts), sep)

\* the concatenation of a sequence of sequences
RECURSIVE Flatten(_)
Flatten(ss) == IF ss = <<>> THEN <<>> ELSE Head(ss) \o Flatten(Tail(ss))

\* the sequences of length at most n over the set S
SeqsUpTo(S, n) == UNION {[1..k -> S] : k \in 0..n}

\* the orders in which the elements of a finite set can be listed
Orders(S) ==
    {f \in [1..Cardinality(S) -> S] : \A i, j \in DOMAIN f : i # j => f[i] # f[j]}

----------------------------------------------------------------------------
(* Module level constants of parse_des.py *)

MONS  == <<"M", "O", "N", "S", ":">>
KMONS == <<"K", "M", "O", "N", "S", ":">>
NAME  == <<"n", "a", "m", "e">>
DOT_DES == <<".", "d", "e", "s">>

TEST_DES == <<"t", "e", "s", "t", ".", "d", "e", "s">>

DEFAULT_DES_FOLDER == <<"crawl-ref", "crawl-ref", "source", "dat", "des">>

DEFAULT_OUTPUT == <<"vault_monster_data.cc">>

IGNORE_DES_FILES == {TEST_DES}

IGNORE_DES_SUBFOLDERS == {"builder", "zotdef", "tutorial"}

----------------------------------------------------------------------------
(* The pre-compiled regular expressions and the string clean-ups *)

\* re.sub("(\s)+", r"\1", line): every run of whitespace is replaced by the
\* text of group 1, which is the last character the repeated group matched
RECURSIVE CLEANUP_WHITESPACE(_)
CLEANUP_WHITESPACE(s) ==
    IF s = <<>> THEN <<>>
    ELSE IF IsSpace(s[1]) /\ Len(s) >= 2 /\ IsSpace(s[2])
         THEN CLEANUP_WHITESPACE(Tail(s))
         ELSE <<s[1]>> \o CLEANUP_WHITESPACE(Tail(s))

\* re.sub(";\\\n", ";", line): the pattern is ';' and an escaped newline,
\* which matches a ';' directly followed by a line break
CLEANUP_SPELLS(s) == Replace(s, <<";", "\n">>, <<";">>)

\* line.replace("\\\n", ""): backslash-newline continuations are removed
CLEANUP_LINES(s) == Replace(s, <<"\\", "\n">>, <<>>)

\* the length of the K?MONS: marker that starts at position i, 0 if none
MarkerLen(s, i) ==
    IF At(s, i, KMONS) THEN 6 ELSE IF At(s, i, MONS) THEN 5 ELSE 0

\* K?MONS:\s*(?:[^\n]*)\n tried at position i: the position of the newline
\* that ends the match, 0 if there is no match.  \s* is greedy and takes the
\* whole run of whitespace after the marker, line breaks included; the match
\* then runs to the next newline.  When no newline follows, the engine
\* backtracks into the whitespace run and ends at the last newline in it.
MatchEnd(s, i) ==
    LET p      == i + MarkerLen(s, i)
        nonsp  == {k \in p..Len(s) : ~IsSpace(s[k])}
        w      == IF nonsp = {} THEN Len(s) + 1
                  ELSE CHOOSE k \in nonsp : \A j \in nonsp : k <= j
        after  == {k \in w..Len(s) : s[k] = "\n"}
        within == {k \in p..(w - 1) : s[k] = "\n"}
    IN  IF after # {} THEN CHOOSE k \in after : \A j \in after : k <= j
        ELSE IF within # {} THEN CHOOSE k \in within : \A j \in within : k >= j
        ELSE 0

\* FIND_MONS_LINES.findall(data), from position i: the non-overlapping
\* matches, leftmost first, each returned whole (the pattern is one group)
RECURSIVE FindAllFrom(_, _)
FindAllFrom(s, i) ==
    IF i > Len(s) THEN <<>>
    ELSE IF MarkerLen(s, i) > 0 /\ MatchEnd(s, i) > 0
         THEN <<SubSeq(s, i, MatchEnd(s, i))>> \o FindAllFrom(s, MatchEnd(s, i) + 1)
         ELSE FindAllFrom(s, i + 1)

FIND_MONS_LINES(s) == FindAllFrom(s, 1)

----------------------------------------------------------------------------
(* cleanup_mons_line, parse_mons_line, cull_unnamed_monsters *)

cleanup_mons_line(l) ==
    LET l1 == Strip(l)
        l2 == IF StartsWith(l1, KMONS) THEN Strip(Last(Split(l1, "="))) ELSE l1
        l3 == Replace(l2, MONS, <<>>)
        l4 == CLEANUP_WHITESPACE(l3)
    IN  Strip(l4)

\* the loop of parse_mons_line: a token holding ',' is extended piecewise
RECURSIVE SplitEnumerations(_)
SplitEnumerations(ms) ==
    IF ms = <<>> THEN <<>>
    ELSE (IF "," \in Range(Head(ms)) THEN Split(Head(ms), ",") ELSE <<Head(ms)>>)
         \o SplitEnumerations(Tail(ms))

\* parse_mons_line without the clean-up of the whole line before the split
parse_mons_line_unclean(l) ==
    LET new_monsters == SplitEnumerations(Split(l, "/"))
    IN  [i \in DOMAIN new_monsters |-> cleanup_mons_line(new_monsters[i])]

parse_mons_line(l) ==
    LET cl           == cleanup_mons_line(l)
        new_monsters == SplitEnumerations(Split(cl, "/"))
    IN  [i \in DOMAIN new_monsters |-> cleanup_mons_line(new_monsters[i])]

\* cull_unnamed_monsters leaving the loop at the first unnamed monster
RECURSIVE cull_until_unnamed(_)
cull_until_unnamed(ls) ==
    IF ls = <<>> THEN <<>>
    ELSE IF ~Contains(Head(ls), NAME) THEN <<>>
    ELSE <<Head(ls)>> \o cull_until_unnamed(Tail(ls))

RECURSIVE cull_unnamed_monsters(_)
cull_unnamed_monsters(ls) ==
    IF ls = <<>> THEN <<>>
    ELSE (IF ~Contains(Head(ls), NAME) THEN <<>> ELSE <<Head(ls)>>)
         \o cull_unnamed_monsters(Tail(ls))

----------------------------------------------------------------------------
(* The environment: a directory tree with files, and command lines *)

\* the directories under the scanned root: node 1 is the root (des_folder),
\* Parent[n] the directory that holds directory n
Parent == <<0, 1, 1, 2>>

Nodes == DOMAIN Parent

Children(n) == {m \in Nodes : Parent[m] = n}

\* the base names of the directories; the root's name comes from des_folder
DirNamings ==
    { <<"des", "builder", "altar", "sub">>,
      <<"des", "vaults", "altar", "sub">>,
      <<"des", "vaults", "zotdef", "tutorial">> }

A_DES == <<"a", ".", "d", "e", "s">>
B_DES == <<"b", ".", "d", "e", "s">>
A_TXT == <<"a", ".", "t", "x", "t">>

\* "MONS: orc named Thug/goblin, kobold\n"
TEXT_THUG ==
    <<"M", "O", "N", "S", ":", " ", "o", "r", "c", " ", "n", "a", "m", "e", "d",
      " ", "T", "h", "u", "g", "/", "g", "o", "b", "l", "i", "n", ",", " ", "k",
      "o", "b", "o", "l", "d", "\n">>

\* "MONS: rat\n"
TEXT_RAT == <<"M", "O", "N", "S", ":", " ", "r", "a", "t", "\n">>

\* "KMONS: 1 = x name\nMONS: x name, y;\nz\\\nw\n\n": two directives followed
\* by a blank line, the second wrapped after ';' and continued with '\'
TEXT_TWO ==
    <<"K", "M", "O", "N", "S", ":", " ", "1", " ", "=", " ", "x", " ", "n", "a",
      "m", "e", "\n", "M", "O", "N", "S", ":", " ", "x", " ", "n", "a", "m", "e",
      ",", " ", "y", ";", "\n", "z", "\\", "\n", "w", "\n", "\n">>

\* "# MONS: q name\nMONS:\nr name\n\n": a marker inside a comment line, and
\* an empty MONS: line followed by an ordinary line
TEXT_ODD ==
    <<"#", " ", "M", "O", "N", "S", ":", " ", "q", " ", "n", "a", "m", "e", "\n",
      "M", "O", "N", "S", ":", "\n", "r", " ", "n", "a", "m", "e", "\n", "\n">>

FileKinds ==
    { <<A_DES, TEXT_THUG>>, <<A_DES, TEXT_TWO>>, <<B_DES, TEXT_RAT>>,
      <<B_DES, TEXT_ODD>>, <<TEST_DES, TEXT_TWO>>, <<A_TXT, TEXT_TWO>> }

Placements ==
    {[dir |-> n, name |-> k[1], data |-> k[2]] : n \in Nodes, k \in FileKinds}

\* the trees: at most MaxFiles files, no two with the same path
FileSets ==
    {F \in {Range(s) : s \in SeqsUpTo(Placements, MaxFiles)} :
        \A f, g \in F : (f.dir = g.dir /\ f.name = g.name) => f = g}

DES_DIR == <<"dat", "des">>

\* command line words: flags and paths
FLAG_V       == <<"-v">>
FLAG_VERBOSE == <<"--verbose">>
FLAG_H       == <<"-h">>
FLAG_HELP    == <<"--help">>
PYTHON       == <<"python">>
PARSE_DES_PY == <<"parse_des.py">>

ArgWords == {FLAG_V, FLAG_VERBOSE, FLAG_H, DES_DIR, <<"nodir">>, <<"out.cc">>}

\* the ways the program is named at the head of sys.argv
ProgramNames ==
    { <<PARSE_DES_PY>>, <<<<".", "parse_des.py">>>>, <<PYTHON, PARSE_DES_PY>> }

\* the directories that exist, apart from the scanned tree's own
DirSets == { {DES_DIR}, {DES_DIR, DEFAULT_DES_FOLDER}, {DES_DIR, FLAG_VERBOSE}, {} }

\* a tree for the runs of main: one file with two directives
MainFiles == {[dir |-> 1, name |-> A_DES, data |-> TEXT_TWO]}

----------------------------------------------------------------------------
(* generate_monster_lines *)

\* this_file.readlines(): the lines of the file, without their line ends
ReadLines(data) ==
    LET parts == Split(data, "\n")
    IN  IF Last(parts) = <<>> THEN SubSeq(parts, 1, Len(parts) - 1) ELSE parts

\* this_data after the strip/join of the lines and the two clean-ups
Preprocess(data) ==
    LET ls        == ReadLines(data)
        this_data == Join([i \in DOMAIN ls |-> Strip(ls[i])], <<"\n">>)
    IN  CLEANUP_LINES(CLEANUP_SPELLS(this_data))

\* what one file adds to monster_lines
FileMonsters(data) ==
    LET found == FIND_MONS_LINES(Preprocess(data))
    IN  Flatten([i \in DOMAIN found |-> parse_mons_line(found[i])])

\* dirpath.split(DIR_DELIM)[-1] for the directory at node n
ThisDir(n) == IF n = 1 THEN Last(des_folder) ELSE dirname[n]

WalkStart ==
    /\ todo = <<1>> /\ cur = 0 /\ listing = <<>> /\ done = <<>>
    /\ monster_lines = <<>> /\ result = <<>>
    /\ visited = <<>> /\ opened = <<>> /\ passed = <<>>

\* os.walk yields the next directory, top-down; the order of its
\* sub-directories and of its files is the order os.listdir gave
WalkDir ==
    /\ pc = "walk" /\ listing = <<>> /\ todo # <<>>
    /\ LET d == Head(todo) IN
        /\ cur' = d
        /\ visited' = Append(visited, d)
        /\ \E subdirs \in Orders(Children(d)) : todo' = subdirs \o Tail(todo)
        /\ IF ThisDir(d) \in IGNORE_DES_SUBFOLDERS
           THEN listing' = <<>>
           ELSE \E filenames \in Orders({f \in files : f.dir = d}) :
                    listing' = filenames
    /\ UNCHANGED <<cull, caller, done, monster_lines, result, opened, passed>>
    /\ UNCHANGED <<envVars, mainVars, callVars, pc>>

\* the loop over filenames with done keyed by the full path of the file
ScanFile_DoneByPath ==
    /\ pc = "walk" /\ listing # <<>>
    /\ LET f == Head(listing) IN
        /\ listing' = Tail(listing)
        /\ IF \/ <<f.dir, f.name>> \in Range(done)
              \/ f.name \in IGNORE_DES_FILES
              \/ ~EndsWith(f.name, DOT_DES)
           THEN UNCHANGED <<done, monster_lines, opened, passed>>
           ELSE LET found == FIND_MONS_LINES(Preprocess(f.data)) IN
                /\ opened' = Append(opened, [dir |-> f.dir, name |-> f.name])
                /\ passed' = passed \o
                       [i \in DOMAIN found |->
                           [dir |-> f.dir, name |-> f.name, text |-> found[i]]]
                /\ monster_lines' = monster_lines \o FileMonsters(f.data)
                /\ done' = Append(done, <<f.dir, f.name>>)
    /\ UNCHANGED <<cull, caller, todo, cur, result, visited>>
    /\ UNCHANGED <<envVars, mainVars, callVars>>
    /\ UNCHANGED pc

\* one pass of the loop over filenames
ScanFile ==
    /\ pc = "walk" /\ listing # <<>>
    /\ LET f == Head(listing) IN
        /\ listing' = Tail(listing)
        /\ IF \/ f.name \in Range(done)
              \/ f.name \in IGNORE_DES_FILES
              \/ ~EndsWith(f.name, DOT_DES)
           THEN UNCHANGED <<done, monster_lines, opened, passed>>
           ELSE LET found == FIND_MONS_LINES(Preprocess(f.data)) IN
                /\ opened' = Append(opened, [dir |-> f.dir, name |-> f.name])
                /\ passed' = passed \o
                       [i \in DOMAIN found |->
                           [dir |-> f.dir, name |-> f.name, text |-> found[i]]]
                /\ monster_lines' = monster_lines \o FileMonsters(f.data)
                /\ done' = Append(done, f.name)
    /\ UNCHANGED <<cull, caller, todo, cur, result, visited>>
    /\ UNCHANGED <<envVars, mainVars, callVars>>
    /\ UNCHANGED pc

\* the walk is over: the function returns
Return ==
    /\ pc = "walk" /\ listing = <<>> /\ todo = <<>>
    /\ result' = IF cull THEN cull_unnamed_monsters(monster_lines) ELSE monster_lines
    /\ pc' = IF caller = "main" THEN "publish" ELSE "returned"
    /\ UNCHANGED <<cull, caller, todo, cur, listing, done, monster_lines,
                   visited, opened, passed>>
    /\ UNCHANGED <<envVars, mainVars, callVars>>

----------------------------------------------------------------------------
(* main *)

\* args.pop(args.index(w)): the list without the first occurrence of w
RECURSIVE PopFirst(_, _)
PopFirst(a, w) ==
    IF a = <<>> THEN <<>>
    ELSE IF Head(a) = w THEN Tail(a)
    ELSE <<Head(a)>> \o PopFirst(Tail(a), w)

\* the list after the -v / --verbose handling
AfterVerbose(a) ==
    IF FLAG_V \in Range(a) THEN PopFirst(a, FLAG_V)
    ELSE IF FLAG_VERBOSE \in Range(a) THEN PopFirst(a, FLAG_VERBOSE)
    ELSE a

\* the argument handling of main, up to the directory check
MainArgs ==
    /\ pc = "main"
    /\ IF FLAG_H \in Range(args) \/ FLAG_HELP \in Range(args)
       THEN /\ outcome' = "help"
            /\ pc' = "exit"
            /\ UNCHANGED <<args, des_folder, output, verbose>>
       ELSE LET a1 == AfterVerbose(args)
                a2 == IF a1 # <<>> /\ a1[1] = PYTHON THEN Tail(a1) ELSE a1
                a3 == IF a2 # <<>> /\ a2[1] = PARSE_DES_PY THEN Tail(a2) ELSE a2
                a4 == IF Len(a3) >= 1 THEN Tail(a3) ELSE a3
                a5 == IF Len(a4) >= 1 THEN Tail(a4) ELSE a4
            IN  /\ verbose' = (FLAG_V \in Range(args) \/ FLAG_VERBOSE \in Range(args))
                /\ IF a1 = <<>> \/ a2 = <<>>
                   THEN \* args[0] on an empty list
                        /\ outcome' = "IndexError"
                        /\ pc' = "exit"
                        /\ args' = IF a1 = <<>> THEN a1 ELSE a2
                        /\ UNCHANGED <<des_folder, output>>
                   ELSE /\ des_folder' = IF Len(a3) >= 1 THEN a3[1] ELSE des_folder
                        /\ output' = IF Len(a4) >= 1 THEN a4[1] ELSE output
                        /\ args' = a5
                        /\ pc' = "check"
                        /\ UNCHANGED outcome
    /\ UNCHANGED <<written, emitted>>
    /\ UNCHANGED <<envVars, walkVars, callVars>>

\* the directory check made on the default folder instead of des_folder
MainCheck_DefaultFolder ==
    /\ pc = "check"
    /\ IF DEFAULT_DES_FOLDER \notin isdir
       THEN /\ outcome' = "MapParseError"
            /\ pc' = "exit"
       ELSE /\ pc' = "walk"
            /\ UNCHANGED outcome
    /\ UNCHANGED <<args, des_folder, output, verbose, written, emitted>>
    /\ UNCHANGED <<envVars, walkVars, callVars>>

\* os.path.isdir(des_folder), then the call of generate_monster_lines
MainCheck ==
    /\ pc = "check"
    /\ IF des_folder \notin isdir
       THEN /\ outcome' = "MapParseError"
            /\ pc' = "exit"
       ELSE /\ pc' = "walk"
            /\ UNCHANGED outcome
    /\ UNCHANGED <<args, des_folder, output, verbose, written, emitted>>
    /\ UNCHANGED <<envVars, walkVars, callVars>>

\* open(output, "w"), publish_monsters_as_cpp, close
MainPublish ==
    /\ pc = "publish"
    /\ written' = written \cup {output}
    /\ emitted' = result
    /\ outcome' = "ok"
    /\ pc' = "exit"
    /\ UNCHANGED <<args, des_folder, output, verbose>>
    /\ UNCHANGED <<envVars, walkVars, callVars>>

----------------------------------------------------------------------------
(* Direct calls of the string functions *)

CallCleanup ==
    /\ pc = "call_cleanup"
    /\ cleaned' = cleanup_mons_line(line)
    /\ recleaned' = cleanup_mons_line(cleanup_mons_line(line))
    /\ pc' = "called"
    /\ UNCHANGED <<line, monsters, lines, culled>>
    /\ UNCHANGED <<envVars, mainVars, walkVars>>

CallParse ==
    /\ pc = "call_parse"
    /\ monsters' = parse_mons_line(line)
    /\ pc' = "called"
    /\ UNCHANGED <<line, cleaned, recleaned, lines, culled>>
    /\ UNCHANGED <<envVars, mainVars, walkVars>>

CallCull ==
    /\ pc = "call_cull"
    /\ culled' = cull_unnamed_monsters(lines)
    /\ pc' = "called"
    /\ UNCHANGED <<line, cleaned, recleaned, monsters, lines>>
    /\ UNCHANGED <<envVars, mainVars, walkVars>>

----------------------------------------------------------------------------
(* Initial states *)

NoCall ==
    /\ line = <<>> /\ cleaned = <<>> /\ recleaned = <<>>
    /\ monsters = <<>> /\ lines = <<>> /\ culled = <<>>

NoMain ==
    /\ argv = <<>> /\ nprog = 0 /\ args = <<>>
    /\ output = DEFAULT_OUTPUT /\ verbose = FALSE
    /\ outcome = "none" /\ written = {} /\ emitted = <<>>

NoTree ==
    /\ dirname = <<"des", "a", "b", "c">> /\ files = {} /\ isdir = {}
    /\ des_folder = DEFAULT_DES_FOLDER
    /\ cull = TRUE /\ caller = "none"
    /\ WalkStart

\* generate_monster_lines called on a tree
InitScan ==
    /\ dirname \in DirNamings
    /\ files \in FileSets
    /\ des_folder = DES_DIR
    /\ isdir = {DES_DIR}
    /\ cull \in BOOLEAN
    /\ caller = "direct"
    /\ WalkStart
    /\ NoMain /\ NoCall
    /\ pc = "walk"

\* the program started with a command line
InitMain ==
    /\ \E p \in ProgramNames, rest \in SeqsUpTo(ArgWords, MaxArgs) :
          /\ argv = p \o rest
          /\ nprog = Len(p)
    /\ args = argv
    /\ des_folder = DEFAULT_DES_FOLDER
    /\ output = DEFAULT_OUTPUT
    /\ verbose = FALSE
    /\ outcome = "none" /\ written = {} /\ emitted = <<>>
    /\ isdir \in DirSets
    /\ dirname = <<"des", "vaults", "altar", "sub">>
    /\ files = MainFiles
    /\ cull = TRUE
    /\ caller = "main"
    /\ WalkStart
    /\ NoCall
    /\ pc = "main"

\* tokens of the strings given to cleanup_mons_line
CleanTokens ==
    { MONS, <<"K">>, <<"M", "O">>, <<"N", "S", ":">>, <<"=">>, <<" ">>, <<"a">> }

\* "KMONS: D = orc priest"
LINE_ORC_PRIEST ==
    <<"K", "M", "O", "N", "S", ":", " ", "D", " ", "=", " ", "o", "r", "c", " ",
      "p", "r", "i", "e", "s", "t">>

CleanInputs ==
    {Flatten(t) : t \in SeqsUpTo(CleanTokens, MaxTokens)} \cup {LINE_ORC_PRIEST}

InitClean ==
    /\ line \in CleanInputs
    /\ cleaned = <<>> /\ recleaned = <<>>
    /\ monsters = <<>> /\ lines = <<>> /\ culled = <<>>
    /\ NoMain /\ NoTree
    /\ pc = "call_cleanup"

\* tokens of the text after the marker of a directive line
BodyTokens ==
    { <<" ">>, <<"a">>, <<"b">>, <<"/">>, <<",">>, <<"=">>, MONS, <<"K">> }

\* "MONS: a/b,c\n"
LINE_ABC == <<"M", "O", "N", "S", ":", " ", "a", "/", "b", ",", "c", "\n">>

\* "KMONS: D = a / b, c\n"
LINE_K_ABC ==
    <<"K", "M", "O", "N", "S", ":", " ", "D", " ", "=", " ", "a", " ", "/", " ",
      "b", ",", " ", "c", "\n">>

\* the texts FIND_MONS_LINES can return: a marker, a body, a newline
DirectiveLines ==
    {m \o Flatten(b) \o <<"\n">> :
        m \in {MONS, KMONS}, b \in SeqsUpTo(BodyTokens, MaxBody)}
    \cup {LINE_ABC, LINE_K_ABC}

InitParse ==
    /\ line \in DirectiveLines
    /\ cleaned = <<>> /\ recleaned = <<>>
    /\ monsters = <<>> /\ lines = <<>> /\ culled = <<>>
    /\ NoMain /\ NoTree
    /\ pc = "call_parse"

ORC_NAMED_BOB ==
    <<"o", "r", "c", " ", "n", "a", "m", "e", "d", " ", "B", "o", "b">>

ORC == <<"o", "r", "c">>

Candidates ==
    { ORC_NAMED_BOB, ORC, NAME, <<"N", "a", "m", "e">>, <<"n", "a", "m", " ", "e">>,
      <<>> }

InitCull ==
    /\ lines \in SeqsUpTo(Candidates, MaxCands)
    /\ line = <<>> /\ cleaned = <<>> /\ recleaned = <<>>
    /\ monsters = <<>> /\ culled = <<>>
    /\ NoMain /\ NoTree
    /\ pc = "call_cull"

----------------------------------------------------------------------------
(* Specifications *)

NextScan == WalkDir \/ ScanFile \/ Return

SpecScan == InitScan /\ [][NextScan]_vars

NextMain == MainArgs \/ MainCheck \/ WalkDir \/ ScanFile \/ Return \/ MainPublish

SpecMain == InitMain /\ [][NextMain]_vars

SpecClean == InitClean /\ [][CallCleanup]_vars

SpecParse == InitParse /\ [][CallParse]_vars

SpecCull == InitCull /\ [][CallCull]_vars

Init == InitScan

Next == NextScan

Spec == SpecScan

----------------------------------------------------------------------------
(* Properties of the scan of a tree (SpecScan) *)

\* the directories on the path of node n below the root, n included
RECURSIVE PathBelowRoot(_)
PathBelowRoot(n) == IF n = 1 THEN {} ELSE {n} \cup PathBelowRoot(Parent[n])

\* a file the scanner is said to leave out: an ignored base name, or an
\* ignored directory name anywhere on its path below the root
LeftOut(d, nm) ==
    \/ nm \in IGNORE_DES_FILES
    \/ \E a \in PathBelowRoot(d) : dirname[a] \in IGNORE_DES_SUBFOLDERS

\* C1: a file whose base name is in IGNORE_DES_FILES, or that has a directory
\* named in IGNORE_DES_SUBFOLDERS anywhere on its path below the root,
\* contributes no candidate: no text of it reaches parse_mons_line.
C1_IgnoredContributeNothing ==
    \A i \in DOMAIN passed : ~LeftOut(passed[i].dir, passed[i].name)

\* the file at a path
FileAt(d, nm) == CHOOSE f \in files : f.dir = d /\ f.name = nm

\* the texts handed to parse_mons_line for one file, in order
PassedFor(d, nm) == SelectSeq(passed, LAMBDA e : e.dir = d /\ e.name = nm)

IsDirective(l) == StartsWith(l, MONS) \/ StartsWith(l, KMONS)

\* the lines of the pre-processed file that begin with MONS: or KMONS:
DirectivesOf(data) == SelectSeq(Split(Preprocess(data), "\n"), IsDirective)

\* each line of ds is the start of its own text of ts, in the same order
MatchedInOrder(ds, ts) ==
    \E g \in [DOMAIN ds -> DOMAIN ts] :
        /\ \A i, j \in DOMAIN ds : i < j => g[i] < g[j]
        /\ \A i \in DOMAIN ds : StartsWith(ts[g[i]].text, ds[i])

ORC_NAMED_THUG ==
    <<"o", "r", "c", " ", "n", "a", "m", "e", "d", " ", "T", "h", "u", "g">>

\* the tree of the end-to-end scenario: one scanned file with the Thug
\* directive, one file "MONS: rat" in an ignored subfolder
ThugScenario ==
    /\ dirname[2] = "builder"
    /\ files = { [dir |-> 1, name |-> A_DES, data |-> TEXT_THUG],
                 [dir |-> 2, name |-> B_DES, data |-> TEXT_RAT] }
    /\ cull

\* C2: when the scan has returned, every line of every scanned file that
\* begins with MONS: or KMONS: was handed to parse_mons_line, once per
\* occurrence and in order, whether it is the first, a middle or the last
\* line; and the Thug scenario yields exactly <<"orc named Thug">>.
C2_EveryDirectiveMatched ==
    pc = "returned" =>
        /\ \A i \in DOMAIN opened :
              MatchedInOrder(
                  DirectivesOf(FileAt(opened[i].dir, opened[i].name).data),
                  PassedFor(opened[i].dir, opened[i].name))
        /\ ThugScenario => result = <<ORC_NAMED_THUG>>

\* a text without the newline that ends it
ChopNewline(t) ==
    IF t # <<>> /\ Last(t) = "\n" THEN SubSeq(t, 1, Len(t) - 1) ELSE t

\* C3: every text handed to parse_mons_line is exactly one line of the
\* pre-processed file, a line that begins with MONS: or KMONS:; it holds no
\* text of another line and stops at the newline ending its own line.
C3_OneWholeDirectiveLine ==
    \A i \in DOMAIN passed :
        LET t     == ChopNewline(passed[i].text)
            data  == FileAt(passed[i].dir, passed[i].name).data
        IN  /\ "\n" \notin Range(t)
            /\ IsDirective(t)
            /\ t \in Range(Split(Preprocess(data), "\n"))

\* the place of directory n in the traversal
VisitIndex(n) == CHOOSE i \in DOMAIN visited : visited[i] = n

\* a file that passes the scanner's own tests: its directory's base name is
\* not an ignored subfolder, its name is not ignored and ends in .des
Scannable(f) ==
    /\ ThisDir(f.dir) \notin IGNORE_DES_SUBFOLDERS
    /\ f.name \notin IGNORE_DES_FILES
    /\ EndsWith(f.name, DOT_DES)

\* the first scannable file of its base name in traversal order
FirstOfName(f) ==
    /\ Scannable(f)
    /\ \A g \in files :
          (Scannable(g) /\ g.name = f.name /\ g # f)
              => VisitIndex(f.dir) < VisitIndex(g.dir)

WasOpened(f) == \E i \in DOMAIN opened : opened[i] = [dir |-> f.dir, name |-> f.name]

HasName(m) ==
    \E i \in 1..(Len(m) - 3) :
        m[i] = "n" /\ m[i + 1] = "a" /\ m[i + 2] = "m" /\ m[i + 3] = "e"

X_NAME == <<"x", " ", "n", "a", "m", "e">>

----------------------------------------------------------------------------
(* Properties of the string functions (SpecParse, SpecClean, SpecCull) *)

\* split on '/', each token further on ',', cleanup_mons_line on each piece
RawSplit(l) ==
    LET tokens == Split(l, "/")
        pieces == Flatten([i \in DOMAIN tokens |-> Split(tokens[i], ",")])
    IN  [i \in DOMAIN pieces |-> cleanup_mons_line(pieces[i])]

ABC == << <<"a">>, <<"b">>, <<"c">> >>

\* C4 as stated: for every directive line parse_mons_line equals the split
\* of the raw, un-normalized line with each piece normalized; "MONS: a/b,c"
\* gives <<"a", "b", "c">>.
C4_SplitsRawLine ==
    pc = "called" =>
        /\ monsters = RawSplit(line)
        /\ line = LINE_ABC => monsters = ABC

\* the text of a directive line after its marker
AfterMarker(l) ==
    IF StartsWith(l, KMONS) THEN SubSeq(l, 7, Len(l)) ELSE SubSeq(l, 6, Len(l))

\* the text of l before its last '='
BeforeLastEq(l) ==
    LET eqs == {k \in DOMAIN l : l[k] = "="}
    IN  SubSeq(l, 1, (CHOOSE k \in eqs : \A j \in eqs : k >= j) - 1)

\* a directive line on which normalizing first changes nothing: MONS: stands
\* only in the leading marker and, in a KMONS: line, no '/' or ',' stands
\* before the last '='
PlainDirective(l) ==
    /\ ~Contains(AfterMarker(l), MONS)
    /\ (StartsWith(l, KMONS) /\ "=" \in Range(l))
          => Range(BeforeLastEq(l)) \cap {"/", ","} = {}

\* C4 amended: parse_mons_line normalizes the whole line first and splits
\* what is left: it equals the split of cleanup_mons_line(line).  It equals
\* the split of the raw line for every directive line in which MONS: stands
\* only in the leading marker and, for a KMONS: line, no '/' or ',' stands
\* before the last '='.  "MONS: a/b,c" gives <<"a", "b", "c">>.
C4_NormalizesThenSplits ==
    pc = "called" =>
        /\ monsters = RawSplit(cleanup_mons_line(line))
        /\ PlainDirective(line) => monsters = RawSplit(line)
        /\ line = LINE_ABC => monsters = ABC

\* a KMONS: directive with alternatives and an enumeration was parsed
C4_Witness ==
    /\ pc = "called"
    /\ line = LINE_K_ABC
    /\ PlainDirective(line)
    /\ monsters = ABC

\* C5: cleanup_mons_line is idempotent: cleaning a cleaned string changes
\* nothing, for every string.
C5_CleanupIdempotent ==
    pc = "called" => recleaned = cleaned

\* the portion of a trimmed KMONS: string that follows the last '=' (the
\* text after the prefix when there is no '=')
AfterLastEq(l) ==
    IF "=" \in Range(l) THEN Last(Split(l, "=")) ELSE SubSeq(l, 7, Len(l))

ORC_PRIEST == <<"o", "r", "c", " ", "p", "r", "i", "e", "s", "t">>

\* C6: for a string that begins with KMONS: once trimmed, cleanup_mons_line
\* returns only the portion after the last '=', markers removed, whitespace
\* runs collapsed, both ends trimmed: the KMONS: prefix and the glyph
\* assignment are gone.  "KMONS: D = orc priest" gives "orc priest".
C6_KmonsKeepsSpecOnly ==
    (pc = "called" /\ StartsWith(Strip(line), KMONS)) =>
        /\ cleaned =
              Strip(CLEANUP_WHITESPACE(Replace(AfterLastEq(Strip(line)), MONS, <<>>)))
        /\ line = LINE_ORC_PRIEST => cleaned = ORC_PRIEST

\* C10: cull_unnamed_monsters returns exactly the members of its input that
\* contain "name" (case-sensitive), unaltered, in their order and with their
\* multiplicity.
C10_CullKeepsNamed ==
    pc = "called" =>
        /\ culled = SelectSeq(lines, HasName)
        /\ \A i \in DOMAIN culled : culled[i] \in Range(lines) /\ HasName(culled[i])
        /\ \A m \in Range(lines) :
              HasName(m) =>
                  Cardinality({i \in DOMAIN culled : culled[i] = m})
                      = Cardinality({i \in DOMAIN lines : lines[i] = m})

\* "orc named Bob" was kept twice and "orc" dropped from between
C10_Witness ==
    /\ pc = "called"
    /\ lines = <<ORC_NAMED_BOB, ORC, ORC_NAMED_BOB>>
    /\ culled = <<ORC_NAMED_BOB, ORC_NAMED_BOB>>

----------------------------------------------------------------------------
(* Properties of main (SpecMain) *)

IsFlag(w) == w \in {FLAG_V, FLAG_VERBOSE, FLAG_H, FLAG_HELP}

\* the command line after the program name, and its positional arguments
Words == SubSeq(argv, nprog + 1, Len(argv))

Positionals == SelectSeq(Words, LAMBDA w : ~IsFlag(w))

HelpGiven == FLAG_H \in Range(argv) \/ FLAG_HELP \in Range(argv)

\* no directory was walked, no file opened, no output created
NoIO == visited = <<>> /\ opened = <<>> /\ written = {}

\* C7 as stated: a source directory argument that is not a directory makes
\* main raise MapParseError, with no scanning and no file I/O before it.
C7_BadSourceArgumentRaises ==
    (Positionals # <<>> /\ Positionals[1] \notin isdir) =>
        /\ NoIO
        /\ pc = "exit" => outcome = "MapParseError"

\* C7 amended: with a help flag main prints the usage and returns, without
\* I/O.  Otherwise, when the path main has resolved as the source directory
\* is not a directory, main raises MapParseError and nothing was scanned,
\* opened or written; scanning and output only ever happen for a resolved
\* source directory that is a directory.
C7_BadResolvedFolderRaises ==
    /\ ~NoIO => des_folder \in isdir
    /\ (pc = "exit" /\ HelpGiven) => (outcome = "help" /\ NoIO)
    /\ (pc = "exit" /\ ~HelpGiven /\ outcome # "IndexError" /\ des_folder \notin isdir)
          => (outcome = "MapParseError" /\ NoIO)

\* main was given a missing directory and raised
C7_Witness ==
    /\ pc = "exit"
    /\ Positionals # <<>> /\ Positionals[1] = <<"nodir">>
    /\ des_folder = <<"nodir">>
    /\ des_folder \notin isdir
    /\ DEFAULT_DES_FOLDER \in isdir
    /\ outcome = "MapParseError"
    /\ NoIO

\* the command lines C8 speaks of: no help flag, each spelling of the
\* verbose flag at most once, at most two positional arguments
PlainCommandLine ==
    /\ ~HelpGiven
    /\ \A w \in {FLAG_V, FLAG_VERBOSE} :
          Cardinality({i \in DOMAIN Words : Words[i] = w}) <= 1
    /\ Len(Positionals) <= 2

\* C8: once the arguments are handled, the source directory is the first
\* positional argument and the output path the second, each the built-in
\* default when absent; the program name and the verbose flags are never
\* taken for either, and the handling does not fail.
C8_PositionalsResolved ==
    (pc # "main" /\ PlainCommandLine) =>
        /\ outcome # "IndexError"
        /\ des_folder =
              IF Len(Positionals) >= 1 THEN Positionals[1] ELSE DEFAULT_DES_FOLDER
        /\ output = IF Len(Positionals) >= 2 THEN Positionals[2] ELSE DEFAULT_OUTPUT

====
